---------------------------- MODULE Spec2Model ----------------------------
(***************************************************************************)
(* A model of cleanlab/internal/multilabel_scorer.py: the Aggregator, the  *)
(* exponential-moving-average reduction, the MultilabelScorer and the      *)
(* label-configuration prior estimator multilabel_py.                      *)
(*                                                                         *)
(* Numbers.  Scores and probabilities are exact rationals <<num, den>>     *)
(* with den > 0; the pair <<0, 0>> stands for Python's None where a        *)
(* rational is optional.  Matrices are sequences of rows, rows sequences   *)
(* of integers.  A probability p of the model stands for p / MaxProb, a    *)
(* per-class score s for s / (2 * MaxProb).  The reduction is modelled      *)
(* twice: in exact arithmetic, and with every operation rounded as binary  *)
(* floating point rounds it (at a reduced width of the significand).       *)
(***************************************************************************)
EXTENDS Integers, Sequences, FiniteSets, TLC

VARIABLES
    aggs,      \* the Aggregator objects: id -> [method, kwargs]
    scorers,   \* the MultilabelScorer objects: id -> [base_scorer, aggregator, strict]
    last,      \* the call the caller has just made: [op, args, out]
    touched    \* history: some Aggregator's method has been invoked by a call
               \* that passed call-time keyword arguments

vars == <<aggs, scorers, last, touched>>

---------------------------------------------------------------------------
(* Bounds of the model.                                                    *)

\* multilabel_py: label matrices of at most MaxPyCells cells, at most MaxPyK classes.
MaxPyCells == 8
MaxPyK == 2
\* Score matrices handed to the reduction and to an Aggregator: at most MaxCells
\* cells, each score in 0..MaxScore.
MaxCells == 4
MaxScore == 2
\* Labels and predicted probabilities handed to a MultilabelScorer: at most
\* MaxScorerCells cells, probabilities in 0..MaxProb (standing for p / MaxProb).
MaxScorerCells == 3
MaxProb == 1
\* Supplied alphas are n / AlphaDen for n in -1 .. AlphaDen + 1.
AlphaDen == 2
\* Floating point: significands of MantBits bits; float score matrices of at
\* most MaxFloatCells cells, each entry k in 0..ScoreDen + 1 standing for the
\* float nearest to k / ScoreDen.
MantBits == 6
MaxFloatCells == 3
ScoreDen == 5

---------------------------------------------------------------------------
(* Rationals and small helpers.                                            *)

None == <<0, 0>>
IsNone(q) == q[2] = 0
Rat(n, d) == <<n, d>>
RatLeq(p, q) == p[1] * q[2] <= q[1] * p[2]
RatEq(p, q) == p[1] * q[2] = q[1] * p[2]

RECURSIVE Pow(_, _)
Pow(b, e) == IF e = 0 THEN 1 ELSE b * Pow(b, e - 1)

RECURSIVE SumSeq(_)
SumSeq(s) == IF s = <<>> THEN 0 ELSE s[1] + SumSeq(Tail(s))

Range(s) == {s[i] : i \in 1..Len(s)}

\* Body applied to the value of x, with x evaluated once.
With(x, Body(_)) == CHOOSE r \in {Body(v) : v \in {x}} : TRUE

\* All orderings of a finite set, as sequences.
RECURSIVE Orderings(_)
Orderings(S) ==
    IF S = {} THEN {<<>>}
    ELSE UNION {{<<x>> \o p : p \in Orderings(S \ {x})} : x \in S}

\* The N x K matrices over Vals, and the shapes of at most maxCells cells.
Matrices(N, K, Vals) == [1..N -> [1..K -> Vals]]
Shapes(maxCells, maxK) ==
    {sh \in (1..maxCells) \X (1..maxK) : sh[1] * sh[2] <= maxCells}
NRows(m) == Len(m)
NCols(m) == Len(m[1])
Transpose(m) == [j \in 1..NCols(m) |-> [i \in 1..NRows(m) |-> m[i][j]]]
Reverse(s) == [i \in 1..Len(s) |-> s[Len(s) + 1 - i]]

\* Python dict merge {**a, **b}: the keys of b win.
DictMerge(a, b) == b @@ a
EmptyDict == <<>>

---------------------------------------------------------------------------
(* numpy operations used by the module.                                    *)

\* np.argsort of a vector: the indices in ascending order of their keys
\* (ties by index).
RECURSIVE ArgSortOf(_, _)
ArgSortOf(keys, idx) ==
    IF idx = {} THEN <<>>
    ELSE LET m == CHOOSE i \in idx : \A j \in idx \ {i} :
                      keys[i] < keys[j] \/ (keys[i] = keys[j] /\ i < j)
         IN <<m>> \o ArgSortOf(keys, idx \ {m})
np_argsort(keys) == ArgSortOf(keys, 1..Len(keys))

\* np.sort of a vector, ascending.
np_sort(v) == With(np_argsort(v), LAMBDA ids : [i \in 1..Len(v) |-> v[ids[i]]])

\* Lexicographic order of two rows of equal length.
LexLess(a, b) ==
    \E j \in 1..Len(a) : a[j] < b[j] /\ \A i \in 1..(j - 1) : a[i] = b[i]

RECURSIVE LexSorted(_)
LexSorted(S) ==
    IF S = {} THEN <<>>
    ELSE LET m == CHOOSE x \in S : \A z \in S \ {x} : LexLess(x, z)
         IN <<m>> \o LexSorted(S \ {m})

\* np.unique(y, axis=0, return_counts=True): the distinct rows in lexicographic
\* order, and how often each occurs.
np_unique(y) ==
    With(LexSorted(Range(y)), LAMBDA labels :
        [unique_labels |-> labels,
         counts |-> [i \in 1..Len(labels) |->
                        Cardinality({r \in 1..Len(y) : y[r] = labels[i]})]])

---------------------------------------------------------------------------
(* multilabel_py and _fix_missing_class_count.                             *)

\* itertools.product([0, 1], repeat=K), as a set of rows.
all_configurations(K) == [1..K -> {0, 1}]

\* set(all_configurations) - set(map(tuple, unique_labels)).
MissingLabels(K, unique_labels) == all_configurations(K) \ Range(unique_labels)

\* np.sum(unique_labels * 2 ** np.arange(K)[::-1], axis=1): one key per row.
BinaryKeys(K, labels) ==
    [i \in 1..Len(labels) |->
        SumSeq([j \in 1..K |-> labels[i][j] * Pow(2, K - j)])]

\* The counts reordered by the argsort of the rows' binary keys.
SortCountsUnordered(K, labels, counts) == counts
SortCounts(K, labels, counts) ==
    With(np_argsort(BinaryKeys(K, labels)), LAMBDA sorted_ids :
        [i \in 1..Len(counts) |-> counts[sorted_ids[i]]])

\* missing_labels is the array built from the set difference; a set iterates
\* in an order the language does not fix, so it is a parameter here and the
\* caller draws it from all orderings of the missing set.
_fix_missing_class_count(K, unique_labels, counts, missing_labels) ==
    IF Len(unique_labels) < Pow(2, K)
    THEN LET stacked == unique_labels \o missing_labels
             padded == counts \o [i \in 1..Len(missing_labels) |-> 0]
         IN SortCounts(K, stacked, padded)
    ELSE counts

multilabel_py(y, missing_labels) ==
    LET N == NRows(y)
        K == NCols(y)
    IN With(np_unique(y), LAMBDA u :
         With(_fix_missing_class_count(K, u.unique_labels, u.counts, missing_labels),
              LAMBDA counts : [i \in 1..Len(counts) |-> Rat(counts[i], N)]))

PyInputs ==
    UNION {Matrices(sh[1], sh[2], {0, 1}) : sh \in Shapes(MaxPyCells, MaxPyK)}

\* The caller is between calls.
Idle == last.op = "none"

\* A call multilabel_py(y).
PyCall ==
    /\ Idle
    /\ \E y \in PyInputs :
         \E missing \in Orderings(MissingLabels(NCols(y), np_unique(y).unique_labels)) :
           last' = [op |-> "multilabel_py",
                    args |-> [y |-> y],
                    out |-> [err |-> "none", result |-> multilabel_py(y, missing)]]
    /\ UNCHANGED <<aggs, scorers, touched>>

---------------------------------------------------------------------------
(* exponential_moving_average.                                             *)

\* np.sort(s, axis=axis) of a matrix: axis 1 sorts every row, axis 0 every column.
np_sort_axis(s, axis) ==
    IF axis = 1 THEN [i \in 1..NRows(s) |-> np_sort(s[i])]
    ELSE With(Transpose(s), LAMBDA t :
             With([j \in 1..NRows(t) |-> np_sort(t[j])], LAMBDA u : Transpose(u)))

\* np.fliplr: every row reversed.
np_fliplr(s) == [i \in 1..NRows(s) |-> Reverse(s[i])]

\* s_sorted = np.fliplr(np.sort(s, axis=axis))
SortedDescending(s, axis) == With(np_sort_axis(s, axis), LAMBDA u : np_fliplr(u))

\* alpha = float(2 / (K + 1))
DefaultAlphaHalved(K) == Rat(1, K + 1)
DefaultAlpha(K) == Rat(2, K + 1)

\* 0 <= alpha <= 1
InUnitIntervalNoUpper(alpha) == RatLeq(Rat(0, 1), alpha)
InUnitInterval(alpha) == RatLeq(Rat(0, 1), alpha) /\ RatLeq(alpha, Rat(1, 1))

\* s_ema = s_T[0]: the running average starts as the first (largest) scores.
EmaStartScaled(alpha, s_0) == [r \in 1..Len(s_0) |-> Rat(alpha[1] * s_0[r], alpha[2])]
EmaStart(alpha, s_0) == [r \in 1..Len(s_0) |-> Rat(s_0[r], 1)]

\* s_ema = alpha * s_i + (1 - alpha) * s_ema, for every row at once.
EmaUpdate(alpha, s_i, s_ema) ==
    [r \in 1..Len(s_ema) |->
        Rat(alpha[1] * s_i[r] * s_ema[r][2] + (alpha[2] - alpha[1]) * s_ema[r][1],
            alpha[2] * s_ema[r][2])]

\* for s_i in s_next: s_ema = ...
RECURSIVE EmaScan(_, _, _)
EmaScan(alpha, s_ema, s_next) ==
    IF s_next = <<>> THEN s_ema
    ELSE With(EmaUpdate(alpha, s_next[1], s_ema), LAMBDA updated :
             EmaScan(alpha, updated, Tail(s_next)))

\* The outcome of exponential_moving_average(s, alpha=alpha, axis=axis):
\* err, the vector returned (empty when it raises) and the alpha in force.
exponential_moving_average(s, alpha, axis) ==
    LET K == NCols(s)
        a == IF IsNone(alpha) THEN DefaultAlpha(K) ELSE alpha
    IN With(SortedDescending(s, axis), LAMBDA s_sorted :
       With(Transpose(s_sorted), LAMBDA s_T :
         IF ~InUnitInterval(a)
         THEN [err |-> "ValueError: alpha must be in the interval [0, 1]",
               result |-> <<>>, alpha |-> a]
         ELSE [err |-> "none",
               result |-> EmaScan(a, EmaStart(a, s_T[1]), Tail(s_T)),
               alpha |-> a]))

ScoreInputs ==
    UNION {Matrices(sh[1], sh[2], 0..MaxScore) : sh \in Shapes(MaxCells, MaxCells)}
SuppliedAlphas == {Rat(n, AlphaDen) : n \in -1..(AlphaDen + 1)}
AlphaArgs == {None} \cup SuppliedAlphas

\* A direct call exponential_moving_average(s, alpha=alpha, axis=axis).
EmaCall ==
    /\ Idle
    /\ \E s \in ScoreInputs, alpha \in AlphaArgs, axis \in {0, 1} :
         last' = [op |-> "exponential_moving_average",
                  args |-> [s |-> s, alpha |-> alpha, axis |-> axis],
                  out |-> exponential_moving_average(s, alpha, axis)]
    /\ UNCHANGED <<aggs, scorers, touched>>

---------------------------------------------------------------------------
(* exponential_moving_average in floating point.  The arrays of the code   *)
(* hold binary floating-point numbers, and every product, difference and   *)
(* sum of the update is rounded to the nearest number of the format, ties  *)
(* to the even significand.  The format of this section has a significand *)
(* of MantBits bits (numpy's float64 has 53) and no bound on the exponent. *)
(* A float is kept as a rational <<n, d>> in lowest terms, d a power of 2. *)

\* The rational n / d with common factors of two removed.
RECURSIVE Halved(_, _)
Halved(n, d) ==
    IF n = 0 THEN <<0, 1>>
    ELSE IF n % 2 = 0 /\ d % 2 = 0 THEN Halved(n \div 2, d \div 2)
    ELSE <<n, d>>

\* n / d (d > 0) rounded to the nearest integer, ties to the even one.
RoundHalfEven(n, d) ==
    LET f == n \div d
        r == n % d
    IN IF 2 * r < d THEN f
       ELSE IF 2 * r > d THEN f + 1
       ELSE IF f % 2 = 0 THEN f ELSE f + 1

\* The significands of the normal floats are the integers of
\* MantLow .. MantHigh - 1.
MantHigh == Pow(2, MantBits)
MantLow == Pow(2, MantBits - 1)

\* n / d > 0 scaled by a power of two into [2^(MantBits-1), 2^MantBits),
\* rounded there and scaled back: the result is m * up / down.
RECURSIVE FlRoundPos(_, _, _, _)
FlRoundPos(n, d, up, down) ==
    IF n \div MantHigh >= d
    THEN IF n % 2 = 0 THEN FlRoundPos(n \div 2, d, 2 * up, down)
         ELSE FlRoundPos(n, 2 * d, 2 * up, down)
    ELSE IF n \div MantLow < d
    THEN IF d % 2 = 0 THEN FlRoundPos(n, d \div 2, up, 2 * down)
         ELSE FlRoundPos(2 * n, d, up, 2 * down)
    ELSE Halved(RoundHalfEven(n, d) * up, down)

\* The float nearest to the rational q.
FlRound(q) ==
    IF q[1] = 0 THEN Rat(0, 1)
    ELSE IF q[1] < 0
    THEN With(FlRoundPos(-q[1], q[2], 1, 1), LAMBDA p : Rat(-p[1], p[2]))
    ELSE FlRoundPos(q[1], q[2], 1, 1)

Max(a, b) == IF a >= b THEN a ELSE b

\* x * y, x + y and x - y of two floats, each rounded once.
FlMul(x, y) == FlRound(Rat(x[1] * y[1], x[2] * y[2]))
FlAdd(x, y) ==
    With(Max(x[2], y[2]), LAMBDA d :
        FlRound(Rat(x[1] * (d \div x[2]) + y[1] * (d \div y[2]), d)))
FlSub(x, y) == FlAdd(x, Rat(-y[1], y[2]))

\* alpha = float(2 / (K + 1)): the quotient of two integers, rounded.
FloatDefaultAlpha(K) == FlRound(DefaultAlpha(K))

\* (1 - alpha)
OneMinusAlphaDropped(alpha) == Rat(1, 1)
OneMinusAlpha(alpha) == FlSub(Rat(1, 1), alpha)

\* s_ema = alpha * s_i + (1 - alpha) * s_ema, for every row at once.
FloatEmaUpdate(alpha, s_i, s_ema) ==
    With(OneMinusAlpha(alpha), LAMBDA rest :
        [r \in 1..Len(s_ema) |-> FlAdd(FlMul(alpha, s_i[r]), FlMul(rest, s_ema[r]))])

\* for s_i in s_next: s_ema = ...
RECURSIVE FloatEmaScan(_, _, _)
FloatEmaScan(alpha, s_ema, s_next) ==
    IF s_next = <<>> THEN s_ema
    ELSE With(FloatEmaUpdate(alpha, s_next[1], s_ema), LAMBDA updated :
             FloatEmaScan(alpha, updated, Tail(s_next)))

\* The float array a matrix of the model stands for: the entry k is the float
\* nearest to k / ScoreDen.
FloatArray(s) ==
    [i \in 1..NRows(s) |-> [j \in 1..NCols(s) |-> FlRound(Rat(s[i][j], ScoreDen))]]

\* The outcome of exponential_moving_average(s, alpha=alpha, axis=axis) on a
\* float array: sorting is done on the entries k, which order as their floats.
exponential_moving_average_float(s, alpha, axis) ==
    LET K == NCols(s)
        a == IF IsNone(alpha) THEN FloatDefaultAlpha(K) ELSE alpha
    IN With(FloatArray(SortedDescending(s, axis)), LAMBDA s_sorted :
       With(Transpose(s_sorted), LAMBDA s_T :
         IF ~InUnitInterval(a)
         THEN [err |-> "ValueError: alpha must be in the interval [0, 1]",
               result |-> <<>>, alpha |-> a]
         ELSE [err |-> "none",
               result |-> FloatEmaScan(a, s_T[1], Tail(s_T)),
               alpha |-> a]))

FloatScoreInputs ==
    UNION {Matrices(sh[1], sh[2], 0..(ScoreDen + 1)) :
              sh \in Shapes(MaxFloatCells, MaxFloatCells)}
\* The alphas a caller supplies are floats: the nearest to n / AlphaDen.
FloatAlphaArgs == {None} \cup {FlRound(a) : a \in SuppliedAlphas}

\* A direct call exponential_moving_average(s, alpha=alpha, axis=axis) on a
\* float array.
EmaFloatCall ==
    /\ Idle
    /\ \E s \in FloatScoreInputs, alpha \in FloatAlphaArgs, axis \in {0, 1} :
         last' = [op |-> "exponential_moving_average_float",
                  args |-> [s |-> s, alpha |-> alpha, axis |-> axis],
                  out |-> exponential_moving_average_float(s, alpha, axis)]
    /\ UNCHANGED <<aggs, scorers, touched>>

---------------------------------------------------------------------------
(* Values handed to an Aggregator or a MultilabelScorer: numpy arrays of    *)
(* one, two or three dimensions, Python lists and None.  data is always    *)
(* kept as a matrix; only an ndarray has ndim and shape.                    *)

NdArray(ndim, data) == [type |-> "ndarray", ndim |-> ndim, data |-> data]
PyList(data) == [type |-> "list", ndim |-> 0, data |-> data]
PyNone == [type |-> "NoneType", ndim |-> 0, data |-> <<>>]

\* isinstance(x, np.ndarray)
IsNdArray(x) == x.type = "ndarray"

---------------------------------------------------------------------------
(* Aggregator.                                                             *)

EMA == "exponential_moving_average"

\* Aggregator.__init__(method, **kwargs); every method of the model is callable.
Aggregator__init__(method, kwargs) == [method |-> method, kwargs |-> kwargs]

\* Aggregator._validate_scores: the error raised, or "none".  The message is
\* an f-string that reads scores.shape, an attribute only an ndarray has.
_validate_scores(scores) ==
    IF ~(IsNdArray(scores) /\ scores.ndim = 2)
    THEN IF IsNdArray(scores)
         THEN "ValueError: Expected 2D array for scores"
         ELSE "AttributeError: object has no attribute 'shape'"
    ELSE "none"

\* kwargs["axis"] = 1
ForceAxis(kwargs) == DictMerge(kwargs, "axis" :> 1)

\* {**kwargs, **self.kwargs}
MergeCallTimeWins(kwargs, self_kwargs) == DictMerge(self_kwargs, kwargs)
MergeKwargs(kwargs, self_kwargs) == DictMerge(kwargs, self_kwargs)

\* self.kwargs after a call: __call__ builds a new dict and writes nothing back.
BoundKwargsUpdatedInPlace(self_kwargs, merged) == merged
BoundKwargsAfterCall(self_kwargs, merged) == self_kwargs

\* self.method(scores, **merged), for the one reduction of the model:
\* exponential_moving_average takes alpha and axis and ignores the rest (**_).
CallMethod(method, s, merged) ==
    exponential_moving_average(
        s,
        IF "alpha" \in DOMAIN merged THEN merged["alpha"] ELSE None,
        IF "axis" \in DOMAIN merged THEN merged["axis"] ELSE 1)

\* Aggregator.__call__(self, scores, **kwargs): the outcome (err, result,
\* whether the method was invoked and with which keyword arguments) and the
\* object afterwards.
Aggregator__call__(self, scores, kwargs) ==
    LET v == _validate_scores(scores)
        merged == MergeKwargs(ForceAxis(kwargs), self.kwargs)
    IN IF v # "none"
       THEN [out |-> [err |-> v, result |-> <<>>, invoked |-> FALSE,
                      received |-> EmptyDict],
             self |-> self]
       ELSE With(CallMethod(self.method, scores.data, merged), LAMBDA r :
              [out |-> [err |-> r.err, result |-> r.result, invoked |-> TRUE,
                        received |-> merged],
               self |-> [self EXCEPT !.kwargs = BoundKwargsAfterCall(@, merged)]])

\* Keyword arguments a caller passes to an Aggregator or, as
\* **aggregator_kwargs, to a MultilabelScorer.
CallKwargs ==
    {EmptyDict, "axis" :> 0} \cup {"alpha" :> a : a \in AlphaArgs}

\* What a caller hands to an Aggregator as scores: matrices, and values that
\* are not 2-dimensional arrays.
NonMatrixInputs ==
    {NdArray(1, <<[j \in 1..MaxCells |-> 0]>>), NdArray(3, <<<<1>>>>),
     PyList(<<<<0, 1>>>>), PyNone}
AggInputs == {NdArray(2, s) : s \in ScoreInputs} \cup NonMatrixInputs

\* A call agg(scores, **kwargs) of the Aggregator object a.
AggCall ==
    /\ Idle
    /\ \E a \in DOMAIN aggs, scores \in AggInputs, kwargs \in CallKwargs :
         \E c \in {Aggregator__call__(aggs[a], scores, kwargs)} :
            /\ last' = [op |-> "Aggregator",
                        args |-> [agg |-> a, scores |-> scores, kwargs |-> kwargs],
                        out |-> c.out]
            /\ aggs' = [aggs EXCEPT ![a] = c.self]
            /\ touched' = (touched \/ (c.out.invoked /\ kwargs # EmptyDict))
    /\ UNCHANGED scorers

---------------------------------------------------------------------------
(* The per-class scorers and the helpers of cleanlab.internal              *)
(* .multilabel_utils and cleanlab.rank that MultilabelScorer calls.        *)

SELF_CONFIDENCE == "SELF_CONFIDENCE"
NORMALIZED_MARGIN == "NORMALIZED_MARGIN"

\* _is_multilabel(labels): a 2-dimensional array of 0/1 entries.
_is_multilabel(labels) ==
    /\ IsNdArray(labels)
    /\ labels.ndim = 2
    /\ \A i \in 1..NRows(labels.data) : \A j \in 1..NCols(labels.data) :
          labels.data[i][j] \in {0, 1}

\* stack_complement(pred_prob_i): the two columns [1 - p, p].
stack_complement(pred_prob_i) ==
    [r \in 1..Len(pred_prob_i) |-> <<MaxProb - pred_prob_i[r], pred_prob_i[r]>>]

\* get_self_confidence_for_each_label: pred_probs[np.arange(N), labels], which
\* raises when a row or a label indexes outside pred_probs.
get_self_confidence_for_each_label(labels, pred_probs) ==
    IF Len(labels) > Len(pred_probs) \/ \E r \in 1..Len(labels) : labels[r] \notin {0, 1}
    THEN [err |-> "IndexError", scores |-> <<>>]
    ELSE [err |-> "none",
          scores |-> [r \in 1..Len(labels) |-> 2 * pred_probs[r][labels[r] + 1]]]

\* get_normalized_margin_for_each_label: (self confidence - other class + 1) / 2;
\* with row counts that differ the arrays do not broadcast.
get_normalized_margin_for_each_label(labels, pred_probs) ==
    LET sc == get_self_confidence_for_each_label(labels, pred_probs)
    IN IF sc.err # "none" THEN sc
       ELSE IF Len(labels) # Len(pred_probs)
       THEN [err |-> "ValueError: operands could not be broadcast", scores |-> <<>>]
       ELSE [err |-> "none",
             scores |-> [r \in 1..Len(labels) |->
                 pred_probs[r][labels[r] + 1] - pred_probs[r][2 - labels[r]] + MaxProb]]

\* ClassLabelScorer._adjust_pred_probs: the model's callers never ask for
\* adjust_pred_probs=True, so pred_probs are returned as they are.
_adjust_pred_probs(self, labels, pred_probs, kwargs) == pred_probs

\* ClassLabelScorer.__call__(labels, pred_probs, **kwargs)
ClassLabelScorer__call__(self, labels, pred_probs, kwargs) ==
    LET adjusted == _adjust_pred_probs(self, labels, pred_probs, kwargs)
    IN IF self = SELF_CONFIDENCE
       THEN get_self_confidence_for_each_label(labels, adjusted)
       ELSE get_normalized_margin_for_each_label(labels, adjusted)

---------------------------------------------------------------------------
(* MultilabelScorer.                                                       *)

\* The aggregator argument of MultilabelScorer.__init__: an Aggregator object
\* (by its id) or a bare callable.
AggregatorRef(id) == [instance |-> TRUE, ref |-> id, method |-> ""]
Callable(method) == [instance |-> FALSE, ref |-> -1, method |-> method]

\* MultilabelScorer.__init__: a bare callable is wrapped in a new Aggregator.
\* Returns the new object and the Aggregator objects afterwards.
MultilabelScorer__init__(heap, base_scorer, aggregator, strict) ==
    LET fresh == Cardinality(DOMAIN heap)
    IN IF ~aggregator.instance
       THEN [aggs |-> heap @@ fresh :> Aggregator__init__(aggregator.method, EmptyDict),
             self |-> [base_scorer |-> base_scorer, aggregator |-> fresh,
                       strict |-> strict]]
       ELSE [aggs |-> heap,
             self |-> [base_scorer |-> base_scorer, aggregator |-> aggregator.ref,
                       strict |-> strict]]

Shape(x) == <<NRows(x.data), NCols(x.data)>>

\* labels.shape != pred_probs.shape
ShapesNeverDiffer(labels, pred_probs) == FALSE
ShapesDiffer(labels, pred_probs) == Shape(labels) # Shape(pred_probs)

\* MultilabelScorer._validate_labels_and_pred_probs: the error raised, or "none".
_validate_labels_and_pred_probs(labels, pred_probs) ==
    IF ~IsNdArray(labels) THEN "TypeError: Labels must be a numpy array."
    ELSE IF ~_is_multilabel(labels)
    THEN "ValueError: Labels must be in multi-label format."
    ELSE IF ShapesDiffer(labels, pred_probs)
    THEN "ValueError: Labels and predicted probabilities must have the same shape."
    ELSE "none"

Column(m, i) == [r \in 1..NRows(m) |-> m[r][i]]
Min(a, b) == IF a <= b THEN a ELSE b

\* The loop over zip(labels.T, pred_probs.T) from column i on: scores[:, i] is
\* written for each column until one raises.  Returns the error, the score
\* matrix and the number of columns scored.
RECURSIVE ScoreColumns(_, _, _, _, _, _)
ScoreColumns(self, labels, pred_probs, base_scorer_kwargs, scores, i) ==
    IF i > Min(NCols(labels), NCols(pred_probs))
    THEN [err |-> "none", scores |-> scores, scored |-> i - 1]
    ELSE With(stack_complement(Column(pred_probs, i)), LAMBDA pred_prob_i_two_columns :
         With(ClassLabelScorer__call__(self.base_scorer, Column(labels, i),
                                       pred_prob_i_two_columns, base_scorer_kwargs),
              LAMBDA c :
           IF c.err # "none"
           THEN [err |-> c.err, scores |-> scores, scored |-> i - 1]
           ELSE With([r \in 1..NRows(scores) |-> [scores[r] EXCEPT ![i] = c.scores[r]]],
                     LAMBDA written :
                       ScoreColumns(self, labels, pred_probs, base_scorer_kwargs,
                                    written, i + 1))))

\* base_scorer_kwargs=None
NoneDict == "None" :> TRUE

\* Whether strict validation runs.
ValidationEnabled(self) == self.strict

\* MultilabelScorer.__call__(labels, pred_probs, base_scorer_kwargs,
\* **aggregator_kwargs): the outcome (err, result, the number of class columns
\* scored, whether the aggregator's method was invoked and with what) and the
\* aggregator object afterwards.
MultilabelScorer__call__(self, aggregator, labels, pred_probs, base_scorer_kwargs, aggregator_kwargs) ==
    LET v == IF ValidationEnabled(self)
             THEN _validate_labels_and_pred_probs(labels, pred_probs)
             ELSE "none"
        Failed(err, scored) ==
            [out |-> [err |-> err, result |-> <<>>, scored |-> scored,
                      invoked |-> FALSE, received |-> EmptyDict],
             aggregator |-> aggregator]
    IN IF v # "none" THEN Failed(v, 0)
       ELSE IF ~IsNdArray(labels)
       THEN Failed("AttributeError: object has no attribute 'shape'", 0)
       ELSE LET zeros == [r \in 1..NRows(labels.data) |->
                             [j \in 1..NCols(labels.data) |-> 0]]
                kw == IF base_scorer_kwargs = NoneDict THEN EmptyDict
                      ELSE base_scorer_kwargs
            IN With(ScoreColumns(self, labels.data, pred_probs.data, kw, zeros, 1),
                    LAMBDA loop :
                 IF loop.err # "none" THEN Failed(loop.err, loop.scored)
                 ELSE With(Aggregator__call__(aggregator, NdArray(2, loop.scores),
                                              aggregator_kwargs),
                           LAMBDA a :
                        [out |-> [err |-> a.out.err, result |-> a.out.result,
                                  scored |-> loop.scored, invoked |-> a.out.invoked,
                                  received |-> a.out.received],
                         aggregator |-> a.self]))

\* The labels and predicted probabilities of the model's calls: every pair of
\* one shape, pairs of different shapes with constant probabilities, and
\* labels that are a list or hold an entry that is no 0 or 1.
ScorerShapes == Shapes(MaxScorerCells, MaxScorerCells)
ConstantMatrix(sh, v) == [r \in 1..sh[1] |-> [j \in 1..sh[2] |-> v]]
ScorerInputs ==
    UNION {
        {<<NdArray(2, l), NdArray(2, p)>> :
            l \in Matrices(sh[1], sh[2], {0, 1}),
            p \in Matrices(sh[1], sh[2], 0..MaxProb)}
        \cup UNION {
            {<<NdArray(2, l), NdArray(2, ConstantMatrix(other, v))>> :
                l \in Matrices(sh[1], sh[2], {0, 1}), v \in 0..MaxProb}
            : other \in ScorerShapes \ {sh}}
        \cup {<<PyList(ConstantMatrix(sh, 1)), NdArray(2, ConstantMatrix(sh, MaxProb))>>,
              <<NdArray(2, ConstantMatrix(sh, 2)), NdArray(2, ConstantMatrix(sh, 0))>>}
        : sh \in ScorerShapes}
BaseScorerKwargs == {NoneDict, "adjust_pred_probs" :> FALSE}

\* A call scorer(labels, pred_probs, base_scorer_kwargs, **aggregator_kwargs)
\* of the MultilabelScorer object s.
ScorerCall ==
    /\ Idle
    /\ \E s \in DOMAIN scorers, in \in ScorerInputs, bkw \in BaseScorerKwargs,
          akw \in CallKwargs :
         \E self \in {scorers[s]} :
         \E c \in {MultilabelScorer__call__(self, aggs[self.aggregator], in[1], in[2],
                                            bkw, akw)} :
            /\ last' = [op |-> "MultilabelScorer",
                        args |-> [scorer |-> s, labels |-> in[1], pred_probs |-> in[2],
                                  base_scorer_kwargs |-> bkw,
                                  aggregator_kwargs |-> akw],
                        out |-> c.out]
            /\ aggs' = [aggs EXCEPT ![self.aggregator] = c.aggregator]
            /\ touched' = (touched \/ (c.out.invoked /\ akw # EmptyDict))
    /\ UNCHANGED scorers

\* The caller takes the outcome of its call and goes on.
Return ==
    /\ ~Idle
    /\ last' = [op |-> "none"]
    /\ UNCHANGED <<aggs, scorers, touched>>

---------------------------------------------------------------------------
(* The objects of the model.                                               *)

\* The default aggregator, built once when the module is loaded:
\* Aggregator(exponential_moving_average, alpha=0.8).
DefaultAggregator == Aggregator__init__(EMA, "alpha" :> Rat(4, 5))

\* Aggregator 0 is the default; aggregator 1 is built by a caller with axis=0.
Heap0 == 0 :> DefaultAggregator @@ 1 :> Aggregator__init__(EMA, "axis" :> 0)
\* MultilabelScorer()
Scorer0 == MultilabelScorer__init__(Heap0, SELF_CONFIDENCE, AggregatorRef(0), TRUE)
\* MultilabelScorer(ClassLabelScorer.NORMALIZED_MARGIN, strict=False)
Scorer1 == MultilabelScorer__init__(Scorer0.aggs, NORMALIZED_MARGIN, AggregatorRef(0),
                                    FALSE)
\* MultilabelScorer(aggregator=exponential_moving_average)
Scorer2 == MultilabelScorer__init__(Scorer1.aggs, SELF_CONFIDENCE, Callable(EMA), TRUE)
\* MultilabelScorer(aggregator=Aggregator(exponential_moving_average, axis=0))
Scorer3 == MultilabelScorer__init__(Scorer2.aggs, SELF_CONFIDENCE, AggregatorRef(1), TRUE)

InitAggs == Scorer3.aggs
InitScorers ==
    0 :> Scorer0.self @@ 1 :> Scorer1.self @@ 2 :> Scorer2.self @@ 3 :> Scorer3.self

Init ==
    /\ aggs = InitAggs
    /\ scorers = InitScorers
    /\ last = [op |-> "none"]
    /\ touched = FALSE

\* Calls on the Aggregator and MultilabelScorer objects.
Next ==
    \/ AggCall
    \/ ScorerCall
    \/ Return

Spec == Init /\ [][Next]_vars

\* Calls of the prior estimator.
NextPy ==
    \/ PyCall
    \/ Return

SpecPy == Init /\ [][NextPy]_vars

\* Direct calls of the reduction.
NextEma ==
    \/ EmaCall
    \/ Return

SpecEma == Init /\ [][NextEma]_vars

\* Direct calls of the reduction on float arrays.
NextFloat ==
    \/ EmaFloatCall
    \/ Return

SpecFloat == Init /\ [][NextFloat]_vars

---------------------------------------------------------------------------
(* The claims.                                                             *)

\* The value of a row read as a binary number, first column most significant.
RECURSIVE RowValue(_)
RowValue(row) ==
    IF row = <<>> THEN 0
    ELSE 2 * RowValue(SubSeq(row, 1, Len(row) - 1)) + row[Len(row)]

\* C1: multilabel_py(y) has exactly 2^K entries; entry i (from 0) is the number
\* of rows of y whose big-endian binary value is i, divided by N; configurations
\* never seen get 0 and the entries sum to 1.
C1_PriorIsEmpiricalDistribution ==
    last.op = "multilabel_py" =>
        LET y == last.args.y
            N == NRows(y)
            K == NCols(y)
            py == last.out.result
        IN /\ Len(py) = Pow(2, K)
           /\ \A i \in 0..(Pow(2, K) - 1) :
                 py[i + 1] = Rat(Cardinality({r \in 1..N : RowValue(y[r]) = i}), N)
           /\ SumSeq([i \in 1..Len(py) |-> py[i][1]]) = N

\* A call on a two-class matrix with two distinct rows, the configuration
\* [0, 0] never seen and [1, 1] seen.
C1_Witness ==
    /\ last.op = "multilabel_py"
    /\ NCols(last.args.y) = 2
    /\ Len(np_unique(last.args.y).unique_labels) = 2
    /\ last.out.result[4][1] > 0
    /\ last.out.result[1][1] = 0

---------------------------------------------------------------------------
IsScorerCall == last.op = "MultilabelScorer"
IsAggCall == last.op = "Aggregator"
IsEmaCall == last.op = "exponential_moving_average"

\* The labels are a dense 2-dimensional array of 0/1 entries.
BinaryIndicator(labels) ==
    /\ labels.type = "ndarray"
    /\ labels.ndim = 2
    /\ \A i \in 1..Len(labels.data) : \A j \in 1..Len(labels.data[i]) :
          labels.data[i][j] \in {0, 1}

PermuteColumns(x, perm) ==
    NdArray(2, [r \in 1..NRows(x.data) |-> [j \in 1..Len(perm) |-> x.data[r][perm[j]]]])

\* The scorer call of the state gives the same error or scores with the
\* columns of labels and pred_probs permuted together, whatever the permutation.
PermutationInvariant ==
    LET a == last.args
        self == InitScorers[a.scorer]
    IN \A perm \in Orderings(1..NCols(a.labels.data)) :
          \E c \in {MultilabelScorer__call__(self, InitAggs[self.aggregator],
                        PermuteColumns(a.labels, perm), PermuteColumns(a.pred_probs, perm),
                        a.base_scorer_kwargs, a.aggregator_kwargs).out} :
             c.err = last.out.err /\ c.result = last.out.result

ValidScorerInputs ==
    /\ BinaryIndicator(last.args.labels)
    /\ Shape(last.args.labels) = Shape(last.args.pred_probs)

\* C2: for binary labels and probabilities of one shape, a MultilabelScorer
\* whose aggregator is the exponential-moving-average reduction returns the same
\* scores when the columns of both matrices are permuted together.
C2_ColumnPermutationInvariant ==
    (IsScorerCall /\ ValidScorerInputs) => PermutationInvariant

\* C2, where the reduction runs along the class axis: the aggregator of the
\* scorer binds no axis at construction.
C2_InvariantAlongClassAxis ==
    (/\ IsScorerCall
     /\ ValidScorerInputs
     /\ "axis" \notin DOMAIN InitAggs[InitScorers[last.args.scorer].aggregator].kwargs)
        => PermutationInvariant

---------------------------------------------------------------------------
AlphaRangeError == "ValueError: alpha must be in the interval [0, 1]"
OutsideUnitInterval(q) == q[1] < 0 \/ q[1] > q[2]

\* C3: exponential_moving_average raises the range error, and returns nothing,
\* exactly when a supplied alpha is below 0 or above 1.
C3_RaisesExactlyOutsideUnitInterval ==
    IsEmaCall =>
        LET alpha == last.args.alpha
        IN IF ~IsNone(alpha) /\ OutsideUnitInterval(alpha)
           THEN last.out.err = AlphaRangeError /\ last.out.result = <<>>
           ELSE last.out.err = "none" /\ Len(last.out.result) = NRows(last.args.s)

\* A call with an alpha above 1 on a matrix of several columns, which raised.
C3_Witness ==
    /\ IsEmaCall
    /\ ~IsNone(last.args.alpha)
    /\ last.args.alpha[1] > last.args.alpha[2]
    /\ NCols(last.args.s) > 1
    /\ last.out.err = AlphaRangeError

\* Each row's single score is returned unchanged.
SingleScoresReturned ==
    /\ last.out.err = "none"
    /\ Len(last.out.result) = NRows(last.args.s)
    /\ \A r \in 1..NRows(last.args.s) :
          RatEq(last.out.result[r], Rat(last.args.s[r][1], 1))

IsSingleColumnCall == IsEmaCall /\ NCols(last.args.s) = 1 /\ last.args.axis = 1

\* C4 as stated: on an N x 1 matrix the reduction returns each row's single
\* score unchanged, for any alpha.
C4_SingleScoreUnchangedAnyAlpha ==
    IsSingleColumnCall => SingleScoresReturned

\* C4 as amended: on an N x 1 matrix the reduction returns each row's single
\* score unchanged, for any alpha in [0, 1] and for alpha not supplied.
C4_SingleScoreUnchanged ==
    (IsSingleColumnCall /\ (IsNone(last.args.alpha) \/ ~OutsideUnitInterval(last.args.alpha)))
        => SingleScoresReturned

\* A call on a matrix of one column and several rows with a supplied alpha
\* strictly inside the interval.
C4_Witness ==
    /\ IsSingleColumnCall
    /\ NRows(last.args.s) > 1
    /\ last.args.s[1][1] # last.args.s[2][1]
    /\ ~IsNone(last.args.alpha)
    /\ 0 < last.args.alpha[1] /\ last.args.alpha[1] < last.args.alpha[2]
    /\ last.out.err = "none"

\* The t-th largest entry of a row.
Largest(row, t) ==
    CHOOSE v \in Range(row) :
        /\ Cardinality({j \in 1..Len(row) : row[j] > v}) < t
        /\ t <= Cardinality({j \in 1..Len(row) : row[j] >= v})

\* The moving average of a row of K scores whose every update uses the
\* factor 2 / (K + 1), written out: with the scores in descending order,
\* ((K-1)^(K-1) s_1 + sum over t = 2..K of 2 (K-1)^(K-t) (K+1)^(t-2) s_t)
\* divided by (K+1)^(K-1).
WindowAverage(row) ==
    LET K == Len(row)
    IN Rat(Pow(K - 1, K - 1) * Largest(row, 1)
             + SumSeq([u \in 1..(K - 1) |->
                   2 * Pow(K - 1, K - (u + 1)) * Pow(K + 1, u - 1) * Largest(row, u + 1)]),
           Pow(K + 1, K - 1))

\* C5: called with alpha=None on a matrix of K columns, the reduction uses the
\* forgetting factor 2 / (K + 1) in every update.
C5_DefaultAlphaIsTwoOverKPlusOne ==
    (IsEmaCall /\ IsNone(last.args.alpha)) =>
        LET K == NCols(last.args.s)
        IN /\ last.out.alpha[1] * (K + 1) = 2 * last.out.alpha[2]
           /\ last.out.err = "none"
           /\ last.args.axis = 1 =>
                 \A r \in 1..NRows(last.args.s) :
                    RatEq(last.out.result[r], WindowAverage(last.args.s[r]))

\* A call with alpha=None on a row of three different scores.
C5_Witness ==
    /\ IsEmaCall
    /\ IsNone(last.args.alpha)
    /\ last.args.axis = 1
    /\ NCols(last.args.s) = 3
    /\ Cardinality(Range(last.args.s[1])) = 3
    /\ last.out.err = "none"

---------------------------------------------------------------------------
\* C6: whenever an Aggregator invokes its reduction method, the method
\* receives axis=1, whatever was bound at construction or passed to the call.
C6_MethodAlwaysReceivesAxisOne ==
    ((IsAggCall \/ IsScorerCall) /\ last.out.invoked) => last.out.received["axis"] = 1

\* C7: an Aggregator called with anything that is not a 2-dimensional array
\* fails with its validation error, and the reduction method is not invoked.
C7_NonMatrixFailsValidation ==
    (IsAggCall /\ ~(last.args.scores.type = "ndarray" /\ last.args.scores.ndim = 2)) =>
        /\ last.out.err = "ValueError: Expected 2D array for scores"
        /\ ~last.out.invoked

---------------------------------------------------------------------------
ShapeMismatchError ==
    "ValueError: Labels and predicted probabilities must have the same shape."
LabelValidationErrors ==
    {ShapeMismatchError, "TypeError: Labels must be a numpy array.",
     "ValueError: Labels must be in multi-label format."}

IsMismatchedCall ==
    /\ IsScorerCall
    /\ BinaryIndicator(last.args.labels)
    /\ Shape(last.args.labels) # Shape(last.args.pred_probs)

\* C8: on valid binary labels whose shape differs from that of pred_probs, a
\* strict MultilabelScorer fails with the shape-mismatch error before any class
\* column is scored and before the aggregator is invoked; a scorer that is not
\* strict raises no validation error.
C8_StrictShapeMismatchFailsFast ==
    IsMismatchedCall =>
        IF InitScorers[last.args.scorer].strict
        THEN /\ last.out.err = ShapeMismatchError
             /\ last.out.result = <<>>
             /\ last.out.scored = 0
             /\ ~last.out.invoked
        ELSE last.out.err \notin LabelValidationErrors

\* A strict scorer called with labels of two columns and pred_probs of one.
C8_Witness ==
    /\ IsMismatchedCall
    /\ scorers[last.args.scorer].strict
    /\ NCols(last.args.labels.data) = 2
    /\ NCols(last.args.pred_probs.data) = 1
    /\ NRows(last.args.labels.data) = NRows(last.args.pred_probs.data)
    /\ last.out.err = ShapeMismatchError

---------------------------------------------------------------------------
\* C9: whatever calls have been made, every MultilabelScorer keeps its base
\* scorer, strict flag and aggregator, every Aggregator (the default one shared
\* by scorers 0 and 1 included) keeps its method and bound keyword arguments,
\* and a scorer call returns what the same call returns on the objects as built.
C9_CallsLeaveConfigurationUnchanged ==
    /\ scorers = InitScorers
    /\ aggs = InitAggs
    /\ IsScorerCall =>
          LET a == last.args
              self == InitScorers[a.scorer]
          IN last.out = MultilabelScorer__call__(self, InitAggs[self.aggregator],
                            a.labels, a.pred_probs, a.base_scorer_kwargs,
                            a.aggregator_kwargs).out

\* A successful call without keyword arguments on scorer 1, which shares the
\* default aggregator, after a call that passed keyword arguments to an
\* aggregator's method.
C9_Witness ==
    /\ touched
    /\ IsScorerCall
    /\ last.args.scorer = 1
    /\ scorers[0].aggregator = scorers[1].aggregator
    /\ last.args.aggregator_kwargs = EmptyDict
    /\ NCols(last.args.labels.data) > 1
    /\ last.out.err = "none"

---------------------------------------------------------------------------
\* The Aggregator object the call of the state went through.
CalledAggregator ==
    IF IsAggCall THEN last.args.agg ELSE InitScorers[last.args.scorer].aggregator
CallTimeKwargs ==
    IF IsAggCall THEN last.args.kwargs ELSE last.args.aggregator_kwargs

\* C10: for a key passed at call time that was also bound at construction, the
\* reduction method receives the construction-time value; the default
\* MultilabelScorer called with a call-time alpha returns the scores it returns
\* without it.
C10_ConstructionTimeKwargsWin ==
    /\ ((IsAggCall \/ IsScorerCall) /\ last.out.invoked) =>
          \A k \in DOMAIN CallTimeKwargs \cap DOMAIN InitAggs[CalledAggregator].kwargs :
             last.out.received[k] = InitAggs[CalledAggregator].kwargs[k]
    /\ (IsScorerCall /\ last.args.scorer = 0
          /\ "alpha" \in DOMAIN last.args.aggregator_kwargs) =>
          \E c \in {MultilabelScorer__call__(InitScorers[0], DefaultAggregator,
                        last.args.labels, last.args.pred_probs,
                        last.args.base_scorer_kwargs, EmptyDict).out} :
             c.err = last.out.err /\ c.result = last.out.result

\* The default scorer called with a call-time alpha of zero on labels of
\* several columns whose scores differ, returning scores.
C10_Witness ==
    /\ IsScorerCall
    /\ last.args.scorer = 0
    /\ "alpha" \in DOMAIN last.args.aggregator_kwargs
    /\ last.args.aggregator_kwargs["alpha"] = Rat(0, AlphaDen)
    /\ last.out.invoked
    /\ last.out.received["alpha"] = Rat(4, 5)
    /\ last.out.err = "none"
    /\ \E r \in 1..Len(last.out.result) :
          last.out.result[r][1] > 0 /\ last.out.result[r][1] < 2 * MaxProb * last.out.result[r][2]

---------------------------------------------------------------------------
IsEmaFloatCall == last.op = "exponential_moving_average_float"

\* The float an entry k of a float score matrix stands for.
FloatScore(k) == FlRound(Rat(k, ScoreDen))

\* q lies between the smallest and the largest score of the row, inclusive.
WithinRowRange(q, row) ==
    /\ \E j \in 1..Len(row) : RatLeq(FloatScore(row[j]), q)
    /\ \E j \in 1..Len(row) : RatLeq(q, FloatScore(row[j]))

InZeroOne(q) == RatLeq(Rat(0, 1), q) /\ RatLeq(q, Rat(1, 1))

\* Every score of the matrix lies in [0, 1].
UnitScores(s) ==
    \A i \in 1..NRows(s) : \A j \in 1..NCols(s) : InZeroOne(FloatScore(s[i][j]))

C11_ExactResultWithinRowRange ==
    (IsEmaCall /\ last.args.axis = 1 /\ last.out.err = "none") =>
        \A r \in 1..NRows(last.args.s) :
           /\ \E j \in 1..NCols(last.args.s) :
                 RatLeq(Rat(last.args.s[r][j], 1), last.out.result[r])
           /\ \E j \in 1..NCols(last.args.s) :
                 RatLeq(last.out.result[r], Rat(last.args.s[r][j], 1))

=============================================================================
